---------------------------- MODULE Spec2Model ----------------------------
(***************************************************************************)
(* llvmenv: src/resource.rs (Resource::from_url, Resource::download,       *)
(* Resource::update, get_filename_from_url, download_file) and             *)
(* src/config.rs (config_dir, init_config).                                *)
(*                                                                         *)
(* Strings are sequences of tokens; a token is an atomic piece of text     *)
(* ("http://", "github.com", "/", ".tar.gz", "x", ...).  Concatenation of  *)
(* strings is \o, str::ends_with / str::starts_with are suffix / prefix    *)
(* tests on the token sequence.                                            *)
(*                                                                         *)
(* Every operation is synchronous and blocking.  from_url touches only the *)
(* probe directory, download and update only the destination, init_config  *)
(* only the configuration directory: they share no state, so each group    *)
(* has its own specification (SpecClassify, SpecAcquire, SpecConfig) over  *)
(* the same variables.                                                     *)
(***************************************************************************)
EXTENDS Naturals, Sequences, FiniteSets

VARIABLES
    pc,         \* position of the single (blocking, synchronous) caller
    op,         \* operation in progress or just returned
    url_str,    \* from_url: the argument
    res,        \* download / update: the Resource (self)
    ret,        \* the Result the last call returned
    effects,    \* what the current call did so far: tools run, transfers, fs ops
    tmp_dir,    \* the probe's TempDir exists on disk
    dest,       \* download / update: the destination path on disk
    dest0,      \* dest as it was when the current call started
    cfg,        \* the configuration directory and entry.toml on disk
    cfg0,       \* cfg as it was when the current call started
    created,    \* number of init_config calls that returned Ok
    calls       \* number of init_config calls started

vars == <<pc, op, url_str, res, ret, effects, tmp_dir, dest, dest0, cfg, cfg0,
          created, calls>>

---------------------------------------------------------------------------
(* Bounds of the model *)

\* number of directory segments before the final path segment of a URL
MaxDirs == 1
\* number of init_config calls in one behaviour
MaxCalls == 3

---------------------------------------------------------------------------
(* Strings *)

ends_with(s, suf) ==
    /\ Len(suf) <= Len(s)
    /\ SubSeq(s, Len(s) - Len(suf) + 1, Len(s)) = suf

starts_with(s, pre) ==
    /\ Len(pre) <= Len(s)
    /\ SubSeq(s, 1, Len(pre)) = pre

\* index of the first token of s that is in toks, Len(s) + 1 when there is none
FirstIndex(s, toks) ==
    LET I == {i \in 1..Len(s) : s[i] \in toks}
    IN  IF I = {} THEN Len(s) + 1 ELSE CHOOSE i \in I : \A j \in I : i <= j

RECURSIVE Split(_)
\* str::split('/')
Split(s) ==
    LET i == FirstIndex(s, {"/"})
    IN  IF i > Len(s) THEN <<s>>
        ELSE <<SubSeq(s, 1, i - 1)>> \o Split(SubSeq(s, i + 1, Len(s)))

\* the host parser lower-cases the domain
ToLower(t) ==
    CASE t = "GITHUB.COM" -> "github.com"
      [] t = "LLVM.ORG"   -> "llvm.org"
      [] OTHER            -> t

LowerAll(s) == [i \in 1..Len(s) |-> ToLower(s[i])]

---------------------------------------------------------------------------
(* url::Url *)

ParseError == [ok |-> FALSE, cannot_be_a_base |-> FALSE, scheme |-> "",
               host |-> <<>>, path |-> <<>>, query |-> <<>>]

\* Url::parse: a scheme is required; a special scheme (http) needs a
\* non-empty host, its host is lower-cased and its empty path becomes "/";
\* any other scheme without "//" gives a cannot-be-a-base URL with an opaque
\* path and no host.  The query starts at the first "?".
Url_parse(s) ==
    IF s = <<>> THEN ParseError
    ELSE
      LET rest == Tail(s)
          q    == FirstIndex(rest, {"?"})
          noq  == SubSeq(rest, 1, q - 1)
          qry  == SubSeq(rest, q, Len(rest))
          p    == FirstIndex(noq, {"/"})
          h    == SubSeq(noq, 1, p - 1)
          pth  == SubSeq(noq, p, Len(noq))
      IN  CASE Head(s) = "http://" ->
                 IF h = <<>> THEN ParseError
                 ELSE [ok |-> TRUE, cannot_be_a_base |-> FALSE,
                       scheme |-> "http://", host |-> LowerAll(h),
                       path |-> IF pth = <<>> THEN <<"/">> ELSE pth,
                       query |-> qry]
            [] Head(s) = "mailto:" ->
                 [ok |-> TRUE, cannot_be_a_base |-> TRUE,
                  scheme |-> "mailto:", host |-> <<>>, path |-> noq,
                  query |-> qry]
            [] OTHER -> ParseError

\* Url::host_str: <<>> stands for None
host_str(u) == u.host

\* Url::path_segments: None for a cannot-be-a-base URL, else the path after
\* its leading "/" split on "/"
path_segments(u) ==
    IF u.cannot_be_a_base THEN [some |-> FALSE, segs |-> <<>>]
    ELSE [some |-> TRUE, segs |-> Split(Tail(u.path))]


---------------------------------------------------------------------------
(* Results *)

\* Ok(Resource::Tar / Svn / Git {url, branch}); branch is always None here
OkResource(kind, url) ==
    [tag |-> "Ok", kind |-> kind, url |-> url, branch |-> "None"]

\* Ok(())
OkUnit == [tag |-> "Ok", kind |-> "Unit", url |-> <<>>, branch |-> "None"]

Err(kind) == [tag |-> "Err", kind |-> kind, url |-> <<>>, branch |-> "None"]

NoResult == [tag |-> "None", kind |-> "None", url |-> <<>>, branch |-> "None"]

\* static classification falls through to the probe
ToProbe == [tag |-> "Probe", kind |-> "None", url |-> <<>>, branch |-> "None"]

---------------------------------------------------------------------------
(* External processes *)

\* how a child process can end: exit status 0, a non-zero exit status, or
\* it could not be spawned at all
Outcomes == {"ok", "nonzero", "nolaunch"}

\* CommandExt::check_run (crate::error): Ok(()) iff the process was launched
\* and exited zero, else a ToolInvocationError
check_run(o) == IF o = "ok" THEN OkUnit ELSE Err("ToolInvocationError")

Process(tool, args, cwd, o) ==
    [kind |-> "process", tool |-> tool, args |-> args, cwd |-> cwd, outcome |-> o,
     placed |-> {}]

\* a filesystem operation or a transfer the call performed
Effect(kind, what, o) ==
    [kind |-> kind, tool |-> what, args |-> <<>>, cwd |-> "", outcome |-> o,
     placed |-> {}]

\* the entries of the destination an effect left there
Placing(e, entries) == [e EXCEPT !.placed = entries]

Processes(es) == {i \in 1..Len(es) : es[i].kind = "process"}
Transfers(es) == {i \in 1..Len(es) : es[i].kind = "transfer"}

---------------------------------------------------------------------------
(* Resource::from_url, static part *)

get_filename_from_url(s) ==
    LET url == Url_parse(s)
        seg == path_segments(url)
    IN  IF ~url.ok THEN [ok |-> FALSE, val |-> <<>>, err |-> "UrlParseError"]
        ELSE IF ~seg.some THEN [ok |-> FALSE, val |-> <<>>, err |-> "URL parse failed"]
        ELSE IF Len(seg.segs) = 0 THEN [ok |-> FALSE, val |-> <<>>, err |-> "URL is invalid"]
        ELSE [ok |-> TRUE, val |-> seg.segs[Len(seg.segs)], err |-> ""]

\* the list of line 25 with its last entry missing
ArchiveExts_without_taz ==
    {<<".tar.gz">>, <<".tar.xz">>, <<".tar.bz2">>, <<".tar.Z">>, <<".tgz">>}

ArchiveExts ==
    {<<".tar.gz">>, <<".tar.xz">>, <<".tar.bz2">>, <<".tar.Z">>, <<".tgz">>, <<".taz">>}

GitServices == {<<"github.com">>, <<"gitlab.com">>}

\* lines 24-48: the rules on the final path segment
filename_rules(s, filename) ==
    IF \E ext \in ArchiveExts : ends_with(filename, ext) THEN OkResource("Tar", s)
    ELSE IF ends_with(filename, <<"trunk">>) THEN OkResource("Svn", s)
    ELSE IF ends_with(filename, <<".git">>) THEN OkResource("Git", s)
    ELSE ToProbe

\* lines 50-76: the rules on the parsed URL's host and path
host_rules(s) ==
    LET url == Url_parse(s)
    IN  IF ~url.ok THEN Err("UrlParseError")
        ELSE IF \E service \in GitServices : host_str(url) = service
             THEN OkResource("Git", s)
        ELSE IF host_str(url) = <<"llvm.org">> /\ starts_with(url.path, <<"/", "svn">>)
             THEN OkResource("Svn", s)
        ELSE IF host_str(url) = <<"llvm.org">> /\ starts_with(url.path, <<"/", "git">>)
             THEN OkResource("Git", s)
        ELSE ToProbe

\* the host rules tried before the rules on the final path segment
from_url_static_hosts_first(s) ==
    LET f == get_filename_from_url(s)
        h == host_rules(s)
    IN  IF h.tag # "Probe" THEN h
        ELSE IF f.ok THEN filename_rules(s, f.val) ELSE ToProbe

\* get_filename_from_url(url_str)? in place of if let Ok(filename) = ...
from_url_static_propagating(s) ==
    LET f == get_filename_from_url(s)
        r == IF f.ok THEN filename_rules(s, f.val) ELSE Err(f.err)
    IN  IF r.tag # "Probe" THEN r ELSE host_rules(s)

\* lines 22-76: everything from_url decides before the probe
from_url_static(s) ==
    LET f == get_filename_from_url(s)
        r == IF f.ok THEN filename_rules(s, f.val) ELSE ToProbe
    IN  IF r.tag # "Probe" THEN r ELSE host_rules(s)

---------------------------------------------------------------------------
(* The URL strings from_url is called with *)

Names ==
    {<<>>, <<".tar.gz">>, <<".tar.xz">>, <<".tar.bz2">>, <<".tar.Z">>, <<".tgz">>,
     <<".taz">>, <<"trunk">>, <<".git">>, <<"svn">>, <<"git">>}

FinalSegments ==
       {pre \o n : pre \in {<<>>, <<"x">>}, n \in Names}
    \cup {n \o <<"x">> : n \in {<<".tar.gz">>, <<"trunk">>, <<".git">>}}

DirSegments ==
    {<<"svn">>, <<"git">>, <<"x">>, <<"svn", "x">>, <<"x", "svn">>, <<".tar.gz">>}

RECURSIVE JoinDirs(_)
JoinDirs(ds) ==
    IF ds = <<>> THEN <<>> ELSE <<"/">> \o Head(ds) \o JoinDirs(Tail(ds))

Paths ==
    LET dirs == UNION {[1..n -> DirSegments] : n \in 0..MaxDirs}
    IN  {JoinDirs(d) : d \in dirs}
        \cup {JoinDirs(d) \o <<"/">> \o f : d \in dirs, f \in FinalSegments}

Hosts ==
    {<<>>, <<"github.com">>, <<"gitlab.com">>, <<"llvm.org">>, <<"example.org">>,
     <<"GITHUB.COM">>, <<"x", "github.com">>}

Queries == {<<>>, <<"?", "x", ".tar.gz">>}

OpaquePaths == {<<>>, <<"x">>, <<"x", ".tar.gz">>, <<"x", ".git">>, <<"trunk">>}

UrlStrings ==
       {<<"http://">> \o h \o p \o q : h \in Hosts, p \in Paths, q \in Queries}
    \cup {<<"mailto:">> \o o \o q : o \in OpaquePaths, q \in Queries}
    \cup {<<>>, <<"github.com", "/", "x", ".tar.gz">>, <<"/", "trunk">>,
          <<"x", ".git">>}

---------------------------------------------------------------------------
(* Resource::from_url as a sequence of steps *)

NoResource == [kind |-> "None", url |-> <<>>, branch |-> "None"]
NoDest == [kind |-> "absent", entries |-> {}, archive |-> "none"]
NoCfg == [dir |-> FALSE, entry |-> "absent"]

\* the probe directory removed by hand after git ls-remote only, the early
\* returns of git init and git remote add leaving it behind
probe_step_cleanup_at_end_only(step, s, o) ==
    LET r == check_run(o)
    IN  CASE step = "git_init" ->
               IF r.tag = "Ok"
               THEN [pc |-> "git_remote_add", tmp_dir |-> TRUE, ret |-> NoResult]
               ELSE [pc |-> "returned", tmp_dir |-> TRUE, ret |-> r]
          [] step = "git_remote_add" ->
               IF r.tag = "Ok"
               THEN [pc |-> "git_ls_remote", tmp_dir |-> TRUE, ret |-> NoResult]
               ELSE [pc |-> "returned", tmp_dir |-> TRUE, ret |-> r]
          [] step = "git_ls_remote" ->
               IF r.tag = "Ok"
               THEN [pc |-> "returned", tmp_dir |-> FALSE, ret |-> OkResource("Git", s)]
               ELSE [pc |-> "returned", tmp_dir |-> FALSE, ret |-> OkResource("Svn", s)]

\* lines 90-120: what one step of the probe leads to.  tmp_dir is dropped
\* (and with it the directory removed) wherever the function returns.
probe_step(step, s, o) ==
    LET r == check_run(o)
    IN  CASE step = "git_init" ->
               IF r.tag = "Ok"
               THEN [pc |-> "git_remote_add", tmp_dir |-> TRUE, ret |-> NoResult]
               ELSE [pc |-> "returned", tmp_dir |-> FALSE, ret |-> r]
          [] step = "git_remote_add" ->
               IF r.tag = "Ok"
               THEN [pc |-> "git_ls_remote", tmp_dir |-> TRUE, ret |-> NoResult]
               ELSE [pc |-> "returned", tmp_dir |-> FALSE, ret |-> r]
          [] step = "git_ls_remote" ->
               IF r.tag = "Ok"
               THEN [pc |-> "returned", tmp_dir |-> FALSE, ret |-> OkResource("Git", s)]
               ELSE [pc |-> "returned", tmp_dir |-> FALSE, ret |-> OkResource("Svn", s)]

probe_args(step, s) ==
    CASE step = "git_init" -> <<"init">>
      [] step = "git_remote_add" -> <<"remote", "add", "origin", "<url_str>">>
      [] step = "git_ls_remote" -> <<"ls-remote">>

\* lines 22-88: the call starts and the static rules are evaluated
from_url(s) ==
    /\ pc = "idle"
    /\ op' = "from_url"
    /\ url_str' = s
    /\ effects' = <<>>
    /\ LET r == from_url_static(s)
       IN  IF r.tag = "Probe"
           THEN pc' = "tempdir_new" /\ ret' = NoResult
           ELSE pc' = "returned" /\ ret' = r
    /\ UNCHANGED <<res, tmp_dir, dest, dest0, cfg, cfg0, created, calls>>

\* line 89: TempDir::new creates the directory, or fails with an io::Error
tempdir_new ==
    /\ pc = "tempdir_new"
    /\ \E ok \in BOOLEAN :
          /\ effects' = Append(effects,
                 Effect("fs", "TempDir::new", IF ok THEN "ok" ELSE "error"))
          /\ IF ok
             THEN tmp_dir' = TRUE /\ pc' = "git_init" /\ ret' = ret
             ELSE tmp_dir' = FALSE /\ pc' = "returned" /\ ret' = Err("io::Error")
    /\ UNCHANGED <<op, url_str, res, dest, dest0, cfg, cfg0, created, calls>>

\* lines 90-120: git init, git remote add origin <url>, git ls-remote, each
\* run in the probe directory
probe ==
    /\ pc \in {"git_init", "git_remote_add", "git_ls_remote"}
    /\ \E o \in Outcomes :
          LET n == probe_step(pc, url_str, o)
          IN  /\ effects' = Append(effects,
                     Process("git", probe_args(pc, url_str), "tmp_dir", o))
              /\ pc' = n.pc
              /\ tmp_dir' = n.tmp_dir
              /\ ret' = n.ret
    /\ UNCHANGED <<op, url_str, res, dest, dest0, cfg, cfg0, created, calls>>

\* the caller takes the result; the next call may start
from_url_done ==
    /\ pc = "returned"
    /\ op = "from_url"
    /\ pc' = "idle"
    /\ op' = "none"
    /\ url_str' = <<>>
    /\ ret' = NoResult
    /\ effects' = <<>>
    /\ UNCHANGED <<res, tmp_dir, dest, dest0, cfg, cfg0, created, calls>>

InitClassify ==
    /\ pc = "idle"
    /\ op = "none"
    /\ url_str = <<>>
    /\ res = NoResource
    /\ ret = NoResult
    /\ effects = <<>>
    /\ tmp_dir = FALSE
    /\ dest = NoDest
    /\ dest0 = NoDest
    /\ cfg = NoCfg
    /\ cfg0 = NoCfg
    /\ created = 0
    /\ calls = 0

NextClassify ==
    \/ \E s \in UrlStrings : from_url(s)
    \/ tempdir_new
    \/ probe
    \/ from_url_done

SpecClassify == InitClassify /\ [][NextClassify]_vars

---------------------------------------------------------------------------
(* Resource::download and Resource::update *)

\* The destination on disk: absent, a regular file, or a directory with
\* entries; archive is the state of the downloaded archive file in it.
InitialDests ==
    {[kind |-> "absent", entries |-> {}, archive |-> "none"],
     [kind |-> "file", entries |-> {}, archive |-> "none"],
     [kind |-> "dir", entries |-> {}, archive |-> "none"],
     [kind |-> "dir", entries |-> {"old"}, archive |-> "none"]}

Resources ==
    {[kind |-> "Svn", url |-> <<"http://", "llvm.org", "/", "svn", "/", "trunk">>,
      branch |-> "None"],
     [kind |-> "Git", url |-> <<"http://", "github.com", "/", "x">>,
      branch |-> "None"],
     [kind |-> "Git", url |-> <<"http://", "github.com", "/", "x">>,
      branch |-> "release"],
     [kind |-> "Tar", url |-> <<"http://", "example.org", "/", "x", ".tar.gz">>,
      branch |-> "None"],
     [kind |-> "Tar", url |-> <<"mailto:", "x", ".tar.gz">>, branch |-> "None"]}

\* a Result that is dropped instead of propagated
try_ignoring(r, next) == [pc |-> next, ret |-> NoResult]

\* the ? operator: an Err returns from the function at once
try(r, next) ==
    IF r.tag = "Ok" THEN [pc |-> next, ret |-> NoResult]
    ELSE [pc |-> "returned", ret |-> r]

IoResult(ok, what) == IF ok THEN OkUnit ELSE Err(what)

\* the destination created when absent, but never tested with is_dir
ensure_dest_unchecked(d, create_ok) ==
    IF d.kind = "absent" /\ ~create_ok
    THEN [dest |-> d, pc |-> "returned", ret |-> Err("io::Error")]
    ELSE [dest |-> IF d.kind = "absent" THEN [d EXCEPT !.kind = "dir"] ELSE d,
          pc |-> "dl_match", ret |-> NoResult]

\* lines 124-132: create_ok is the result of fs::create_dir_all, consulted
\* only when the destination does not exist
ensure_dest(d, create_ok) ==
    LET created_ == d.kind = "absent" /\ create_ok
        d1 == IF created_ THEN [d EXCEPT !.kind = "dir"] ELSE d
    IN  IF d.kind = "absent" /\ ~create_ok
        THEN [dest |-> d, pc |-> "returned", ret |-> Err("io::Error")]
        ELSE IF d1.kind # "dir"
        THEN [dest |-> d1, pc |-> "returned",
              ret |-> Err("Download destination must be a directory")]
        ELSE [dest |-> d1, pc |-> "dl_match", ret |-> NoResult]

\* lines 123, 159: a call starts
download(r) ==
    /\ pc = "idle"
    /\ op' = "download"
    /\ res' = r
    /\ dest0' = dest
    /\ effects' = <<>>
    /\ ret' = NoResult
    /\ pc' = "dl_dest"
    /\ UNCHANGED <<url_str, tmp_dir, dest, cfg, cfg0, created, calls>>

dl_dest ==
    /\ pc = "dl_dest"
    /\ \E create_ok \in BOOLEAN :
          LET n == ensure_dest(dest, create_ok)
          IN  /\ dest' = n.dest
              /\ pc' = n.pc
              /\ ret' = n.ret
              /\ effects' =
                    IF dest.kind = "absent"
                    THEN Append(effects, Placing(
                             Effect("fs", "fs::create_dir_all",
                                    IF create_ok THEN "ok" ELSE "error"), {}))
                    ELSE effects
    /\ UNCHANGED <<op, url_str, res, tmp_dir, dest0, cfg, cfg0, created, calls>>

\* what a checkout or clone leaves in the destination: the working copy when
\* it exits zero, possibly part of it when it exits non-zero
Checkout(o, partial) ==
    CASE o = "ok" -> {"checkout"}
      [] o = "nonzero" /\ partial -> {"checkout"}
      [] OTHER -> {}

\* lines 134-146: svn co <url> -r HEAD <dest>, git clone <url> --depth 1 <dest> [-b <branch>]
checkout_command(r) ==
    IF r.kind = "Svn"
    THEN [tool |-> "svn", args |-> <<"co", "<url>", "-r", "HEAD", "<dest>">>]
    ELSE [tool |-> "git",
          args |-> <<"clone", "<url>", "--depth", "1", "<dest>">>
                   \o (IF r.branch # "None" THEN <<"-b", r.branch>> ELSE <<>>)]

dl_checkout ==
    /\ pc = "dl_match"
    /\ res.kind \in {"Svn", "Git"}
    /\ \E o \in Outcomes, partial \in BOOLEAN :
          LET c == checkout_command(res)
              n == try(check_run(o), "returned")
          IN  /\ effects' = Append(effects,
                     Placing(Process(c.tool, c.args, ".", o), Checkout(o, partial)))
              /\ dest' = [dest EXCEPT !.entries = @ \cup Checkout(o, partial)]
              /\ pc' = "returned"
              /\ ret' = IF n.ret = NoResult THEN OkUnit ELSE n.ret
    /\ UNCHANGED <<op, url_str, res, tmp_dir, dest0, cfg, cfg0, created, calls>>

\* line 184: reqwest::get
dl_get ==
    /\ pc = "dl_match"
    /\ res.kind = "Tar"
    /\ \E ok \in BOOLEAN :
          LET n == try(IoResult(ok, "reqwest::Error"), "dl_name")
          IN  /\ effects' = Append(effects,
                     Effect("transfer", "reqwest::get", IF ok THEN "ok" ELSE "error"))
              /\ pc' = n.pc
              /\ ret' = n.ret
    /\ UNCHANGED <<op, url_str, res, tmp_dir, dest, dest0, cfg, cfg0, created, calls>>

\* lines 185-190: the destination is a directory here, the file is named
\* after the URL's final path segment
dl_name ==
    /\ pc = "dl_name"
    /\ LET f == get_filename_from_url(res.url)
           n == try(IF f.ok THEN OkUnit ELSE Err(f.err), "dl_create")
       IN  pc' = n.pc /\ ret' = n.ret
    /\ UNCHANGED <<op, url_str, res, effects, tmp_dir, dest, dest0, cfg, cfg0,
                   created, calls>>

\* lines 191-193: what File::create, Response::copy_to and File::sync_all
\* leave of the archive file
file_step(step, ok, archive) ==
    CASE step = "dl_create" -> IF ok THEN "empty" ELSE archive
      [] step = "dl_copy"   -> IF ok THEN "written" ELSE "partial"
      [] step = "dl_sync"   -> IF ok THEN "synced" ELSE archive

file_next(step) ==
    CASE step = "dl_create" -> "dl_copy"
      [] step = "dl_copy"   -> "dl_sync"
      [] step = "dl_sync"   -> "dl_tar"

file_call(step) ==
    CASE step = "dl_create" -> "fs::File::create"
      [] step = "dl_copy"   -> "Response::copy_to"
      [] step = "dl_sync"   -> "File::sync_all"

dl_file ==
    /\ pc \in {"dl_create", "dl_copy", "dl_sync"}
    /\ \E ok \in BOOLEAN :
          LET n == try(IoResult(ok, "io::Error"), file_next(pc))
              a == file_step(pc, ok, dest.archive)
              placed == IF a # "none" THEN {"archive_file"} ELSE {}
          IN  /\ effects' = Append(effects,
                     Placing(Effect(IF pc = "dl_copy" THEN "transfer" ELSE "fs",
                                    file_call(pc), IF ok THEN "ok" ELSE "error"),
                             IF pc = "dl_create" /\ ok THEN {"archive_file"} ELSE {}))
              /\ dest' = [dest EXCEPT !.archive = a, !.entries = @ \cup placed]
              /\ pc' = n.pc
              /\ ret' = n.ret
    /\ UNCHANGED <<op, url_str, res, tmp_dir, dest0, cfg, cfg0, created, calls>>

\* what tar xf leaves in the destination
Extract(o, partial) ==
    CASE o = "ok" -> {"extracted"}
      [] o = "nonzero" /\ partial -> {"extracted"}
      [] OTHER -> {}

\* lines 149-156: tar xf <file name>, run in the destination
dl_tar ==
    /\ pc = "dl_tar"
    /\ \E o \in Outcomes, partial \in BOOLEAN :
          LET n == try(check_run(o), "returned")
          IN  /\ effects' = Append(effects,
                     Placing(Process("tar", <<"xf", "<file_name>">>, "dest", o),
                             Extract(o, partial)))
              /\ dest' = [dest EXCEPT !.entries = @ \cup Extract(o, partial)]
              /\ pc' = "returned"
              /\ ret' = IF n.ret = NoResult THEN OkUnit ELSE n.ret
    /\ UNCHANGED <<op, url_str, res, tmp_dir, dest0, cfg, cfg0, created, calls>>

\* an archive re-extracted on update
update_command_extracting(kind) ==
    CASE kind = "Svn" -> [run |-> TRUE, tool |-> "svn", args |-> <<"update">>]
      [] kind = "Git" -> [run |-> TRUE, tool |-> "git", args |-> <<"pull">>]
      [] kind = "Tar" -> [run |-> TRUE, tool |-> "tar", args |-> <<"xf", "<file_name>">>]

\* the two arms of the match exchanged
update_command_swapped(kind) ==
    CASE kind = "Svn" -> [run |-> TRUE, tool |-> "git", args |-> <<"pull">>]
      [] kind = "Git" -> [run |-> TRUE, tool |-> "svn", args |-> <<"update">>]
      [] kind = "Tar" -> [run |-> FALSE, tool |-> "", args |-> <<>>]

\* lines 160-170: the command update runs for each kind of resource, in the
\* destination; none for an archive
update_command(kind) ==
    CASE kind = "Svn" -> [run |-> TRUE, tool |-> "svn", args |-> <<"update">>]
      [] kind = "Git" -> [run |-> TRUE, tool |-> "git", args |-> <<"pull">>]
      [] kind = "Tar" -> [run |-> FALSE, tool |-> "", args |-> <<>>]

update(r) ==
    /\ pc = "idle"
    /\ op' = "update"
    /\ res' = r
    /\ dest0' = dest
    /\ effects' = <<>>
    /\ ret' = NoResult
    /\ pc' = "up_match"
    /\ UNCHANGED <<url_str, tmp_dir, dest, cfg, cfg0, created, calls>>

\* a child whose working directory is not a directory cannot be spawned
SpawnOutcomes(d) == IF d.kind = "dir" THEN Outcomes ELSE {"nolaunch"}

\* what svn update / git pull leaves in the destination
Refresh(o) == IF o = "ok" THEN {"updated"} ELSE {}

up_match ==
    /\ pc = "up_match"
    /\ LET c == update_command(res.kind)
       IN  IF c.run
           THEN \E o \in SpawnOutcomes(dest) :
                   LET n == try(check_run(o), "returned")
                   IN  /\ effects' = Append(effects,
                              Placing(Process(c.tool, c.args, "dest", o), Refresh(o)))
                       /\ dest' = [dest EXCEPT !.entries = @ \cup Refresh(o)]
                       /\ ret' = IF n.ret = NoResult THEN OkUnit ELSE n.ret
           ELSE /\ ret' = OkUnit
                /\ UNCHANGED <<effects, dest>>
    /\ pc' = "returned"
    /\ UNCHANGED <<op, url_str, res, tmp_dir, dest0, cfg, cfg0, created, calls>>

acquire_done ==
    /\ pc = "returned"
    /\ op \in {"download", "update"}
    /\ pc' = "idle"
    /\ op' = "none"
    /\ res' = NoResource
    /\ ret' = NoResult
    /\ effects' = <<>>
    /\ dest0' = NoDest
    /\ UNCHANGED <<url_str, tmp_dir, dest, cfg, cfg0, created, calls>>

InitAcquire ==
    /\ pc = "idle"
    /\ op = "none"
    /\ url_str = <<>>
    /\ res = NoResource
    /\ ret = NoResult
    /\ effects = <<>>
    /\ tmp_dir = FALSE
    /\ dest \in InitialDests
    /\ dest0 = NoDest
    /\ cfg = NoCfg
    /\ cfg0 = NoCfg
    /\ created = 0
    /\ calls = 0

NextAcquire ==
    \/ \E r \in Resources : download(r)
    \/ dl_dest
    \/ dl_checkout
    \/ dl_get
    \/ dl_name
    \/ dl_file
    \/ dl_tar
    \/ \E r \in Resources : update(r)
    \/ up_match
    \/ acquire_done

SpecAcquire == InitAcquire /\ [][NextAcquire]_vars

---------------------------------------------------------------------------
(* config_dir and init_config *)

\* The configuration directory <config>/llvmenv and entry.toml in it.
\* "default" is LLVM_MIRROR, "partial" a proper prefix of it, "empty" a file
\* of length 0, "user" any other content.
EntryContents == {"empty", "partial", "default", "user"}

InitialCfgs ==
    {NoCfg} \cup {[dir |-> TRUE, entry |-> e] : e \in {"absent"} \cup EntryContents}

\* lines 43-51: some is dirs::config_dir().is_some(), create_ok the result of
\* fs::create_dir_all, consulted only when the directory does not exist
config_dir(c, some, create_ok) ==
    IF ~some THEN [cfg |-> c, ret |-> Err("Unsupported OS")]
    ELSE IF ~c.dir /\ ~create_ok THEN [cfg |-> c, ret |-> Err("io::Error")]
    ELSE [cfg |-> [c EXCEPT !.dir = TRUE], ret |-> OkUnit]

\* the existence test left out: the file is always (re)created
entry_exists_never(c) == FALSE

\* line 105: entry.exists()
entry_exists(c) == c.entry # "absent"

\* how a single File::write of the whole buffer can end: everything written,
\* Ok(n) with n short of the buffer (the count is not looked at), or an error
WriteOutcomes == {"all", "short", "error"}

\* line 108: the content of the file after f.write(LLVM_MIRROR.as_bytes())
written(o) ==
    CASE o = "all" -> "default"
      [] o = "short" -> "partial"
      [] o = "error" -> "empty"

init_config ==
    /\ pc = "idle"
    /\ calls < MaxCalls
    /\ calls' = calls + 1
    /\ op' = "init_config"
    /\ cfg0' = cfg
    /\ effects' = <<>>
    /\ ret' = NoResult
    /\ pc' = "ic_config_dir"
    /\ UNCHANGED <<url_str, res, tmp_dir, dest, dest0, cfg, created>>

\* line 103
ic_config_dir ==
    /\ pc = "ic_config_dir"
    /\ \E some \in BOOLEAN, create_ok \in BOOLEAN :
          LET r == config_dir(cfg, some, create_ok)
              n == try(r.ret, "ic_exists")
          IN  /\ cfg' = r.cfg
              /\ pc' = n.pc
              /\ ret' = n.ret
              /\ effects' =
                    IF some /\ ~cfg.dir
                    THEN Append(effects, Effect("fs", "fs::create_dir_all",
                                    IF create_ok THEN "ok" ELSE "error"))
                    ELSE effects
    /\ UNCHANGED <<op, url_str, res, tmp_dir, dest, dest0, cfg0, created, calls>>

\* lines 104-105, 109-111
ic_exists ==
    /\ pc = "ic_exists"
    /\ IF entry_exists(cfg)
       THEN pc' = "returned" /\ ret' = Err("Setting already exists.")
       ELSE pc' = "ic_create" /\ ret' = ret
    /\ UNCHANGED <<op, url_str, res, effects, tmp_dir, dest, dest0, cfg, cfg0,
                   created, calls>>

\* line 107: File::create makes the file, or truncates it
ic_create ==
    /\ pc = "ic_create"
    /\ \E ok \in BOOLEAN :
          LET n == try(IoResult(ok, "io::Error"), "ic_write")
          IN  /\ effects' = Append(effects, Effect("fs", "fs::File::create",
                                      IF ok THEN "ok" ELSE "error"))
              /\ cfg' = IF ok THEN [cfg EXCEPT !.entry = "empty"] ELSE cfg
              /\ pc' = n.pc
              /\ ret' = n.ret
    /\ UNCHANGED <<op, url_str, res, tmp_dir, dest, dest0, cfg0, created, calls>>

\* lines 108, 112
ic_write ==
    /\ pc = "ic_write"
    /\ \E o \in WriteOutcomes :
          LET n == try(IoResult(o # "error", "io::Error"), "returned")
          IN  /\ effects' = Append(effects, Effect("fs", "Write::write", o))
              /\ cfg' = [cfg EXCEPT !.entry = written(o)]
              /\ pc' = "returned"
              /\ ret' = IF n.ret = NoResult THEN OkUnit ELSE n.ret
              /\ created' = IF n.ret = NoResult THEN created + 1 ELSE created
    /\ UNCHANGED <<op, url_str, res, tmp_dir, dest, dest0, cfg0, calls>>

init_config_done ==
    /\ pc = "returned"
    /\ op = "init_config"
    /\ pc' = "idle"
    /\ op' = "none"
    /\ ret' = NoResult
    /\ effects' = <<>>
    /\ cfg0' = NoCfg
    /\ UNCHANGED <<url_str, res, tmp_dir, dest, dest0, cfg, created, calls>>

InitConfig ==
    /\ pc = "idle"
    /\ op = "none"
    /\ url_str = <<>>
    /\ res = NoResource
    /\ ret = NoResult
    /\ effects = <<>>
    /\ tmp_dir = FALSE
    /\ dest = NoDest
    /\ dest0 = NoDest
    /\ cfg \in InitialCfgs
    /\ cfg0 = NoCfg
    /\ created = 0
    /\ calls = 0

NextConfig ==
    \/ init_config
    \/ ic_config_dir
    \/ ic_exists
    \/ ic_create
    \/ ic_write
    \/ init_config_done

SpecConfig == InitConfig /\ [][NextConfig]_vars

---------------------------------------------------------------------------
(* Properties of Resource::from_url, checked under SpecClassify *)

\* the URL parses and has path segments
HasPathSegments(s) == Url_parse(s).ok /\ ~Url_parse(s).cannot_be_a_base

\* what follows the last "/" of the URL's path
FinalSegment(s) ==
    LET path == Url_parse(s).path
        slashes == {i \in 1..Len(path) : path[i] = "/"}
        last == CHOOSE i \in slashes : \A j \in slashes : j <= i
    IN  SubSeq(path, last + 1, Len(path))

ArchiveSuffixes ==
    {<<".tar.gz">>, <<".tar.xz">>, <<".tar.bz2">>, <<".tar.Z">>, <<".tgz">>, <<".taz">>}

EndsInArchiveSuffix(s) ==
    /\ HasPathSegments(s)
    /\ \E x \in ArchiveSuffixes : ends_with(FinalSegment(s), x)

Classified(kind, s) == [tag |-> "Ok", kind |-> kind, url |-> s, branch |-> "None"]

NoProbe == effects = <<>> /\ ~tmp_dir

\* C1: a URL whose final path segment ends in .tar.gz, .tar.xz, .tar.bz2,
\* .tar.Z, .tgz or .taz is classified as Tar with the url equal to the input
\* string, whatever its host and path prefix, and the probe is never started.
C1_ArchiveVerbatim ==
    (op = "from_url" /\ EndsInArchiveSuffix(url_str)) =>
        /\ pc = "returned"
        /\ ret = Classified("Tar", url_str)
        /\ NoProbe

\* C1, witness: http://llvm.org/svn/... with a .taz file name came back as Tar
C1_Witness ==
    /\ pc = "returned"
    /\ op = "from_url"
    /\ Url_parse(url_str).ok
    /\ Url_parse(url_str).host = <<"llvm.org">>
    /\ starts_with(Url_parse(url_str).path, <<"/", "svn">>)
    /\ ends_with(FinalSegment(url_str), <<".taz">>)
    /\ ret.kind = "Tar"

\* the kind of the first rule, in the stated priority order, that matches;
\* "Probe" when none does
FirstRule(s) ==
    LET u == Url_parse(s)
    IN  IF EndsInArchiveSuffix(s) THEN "Tar"
        ELSE IF HasPathSegments(s) /\ ends_with(FinalSegment(s), <<"trunk">>) THEN "Svn"
        ELSE IF HasPathSegments(s) /\ ends_with(FinalSegment(s), <<".git">>) THEN "Git"
        ELSE IF u.host = <<"github.com">> \/ u.host = <<"gitlab.com">> THEN "Git"
        ELSE IF u.host = <<"llvm.org">> /\ starts_with(u.path, <<"/", "svn">>) THEN "Svn"
        ELSE IF u.host = <<"llvm.org">> /\ starts_with(u.path, <<"/", "git">>) THEN "Git"
        ELSE "Probe"

\* C2: the rules are tried in priority order (final segment: archive suffix,
\* trunk, .git; then host github.com / gitlab.com; then llvm.org with /svn or
\* /git) and the first that matches decides the kind, with no branch; the
\* probe is started only when none of them matches.
C2_FirstMatchWins ==
    (op = "from_url" /\ Url_parse(url_str).ok) =>
        IF FirstRule(url_str) # "Probe"
        THEN /\ pc = "returned"
             /\ ret = Classified(FirstRule(url_str), url_str)
             /\ NoProbe
        ELSE pc = "returned" => effects # <<>>

\* C2, witness: a github.com URL ending in trunk came back as Subversion
C2_Witness ==
    /\ pc = "returned"
    /\ op = "from_url"
    /\ Url_parse(url_str).ok
    /\ Url_parse(url_str).host = <<"github.com">>
    /\ ends_with(FinalSegment(url_str), <<"trunk">>)
    /\ ret = Classified("Svn", url_str)

\* C3: in the probe, a tool that cannot be launched (git init, git remote
\* add or git ls-remote) makes from_url return a ToolInvocationError, never
\* a classification; Subversion comes only from a git ls-remote that was
\* launched and failed, and Git from one that succeeded.
C3_UnlaunchableToolIsAnError ==
    (op = "from_url" /\ pc = "returned" /\ effects # <<>>) =>
        LET last == effects[Len(effects)]
        IN  /\ (\E i \in Processes(effects) : effects[i].outcome = "nolaunch")
                   => ret = Err("ToolInvocationError")
            /\ ret = Classified("Svn", url_str)
                   => last.args = <<"ls-remote">> /\ last.outcome = "nonzero"
            /\ (last.args = <<"ls-remote">> /\ last.outcome = "ok")
                   => ret = Classified("Git", url_str)

\* C4: the probe directory exists only while a from_url call is inside the
\* probe; it is gone whenever the call has returned, on every exit path
\* (git init failed, git remote add failed, git ls-remote succeeded or
\* failed), and whenever no call is in progress.
C4_ProbeDirRemoved ==
    /\ pc \in {"idle", "returned"} => ~tmp_dir
    /\ tmp_dir => op = "from_url" /\ pc \in {"git_init", "git_remote_add", "git_ls_remote"}

\* C4, witness: the directory was created, git remote add failed, the call
\* returned its error
C4_Witness ==
    /\ pc = "returned"
    /\ op = "from_url"
    /\ Len(effects) = 3
    /\ effects[1].tool = "TempDir::new" /\ effects[1].outcome = "ok"
    /\ effects[3].args[1] = "remote" /\ effects[3].outcome # "ok"
    /\ ret.tag = "Err"
    /\ ~tmp_dir

\* C5: a URL string that does not parse makes from_url fail with the URL
\* parse error before the probe directory is made or a tool is run; a URL
\* that parses but has no path segments does not fail on the final-segment
\* extraction: classification goes on to the host rules (which cannot match
\* a URL without a host) and from there into the probe.
C5_ParseErrors ==
    op = "from_url" =>
        /\ ~Url_parse(url_str).ok =>
              /\ pc = "returned"
              /\ ret = Err("UrlParseError")
              /\ NoProbe
        /\ (Url_parse(url_str).ok /\ ~HasPathSegments(url_str)) =>
              /\ ret.kind \notin {"UrlParseError", "URL parse failed", "URL is invalid"}
              /\ pc # "returned" \/ effects # <<>>

\* C5, witness: mailto:x.tar.gz (no path segments) went through the probe
\* and was classified by it
C5_Witness ==
    /\ pc = "returned"
    /\ op = "from_url"
    /\ url_str = <<"mailto:", "x", ".tar.gz">>
    /\ ret = Classified("Git", url_str)

---------------------------------------------------------------------------
(* Properties of Resource::download and Resource::update, checked under
   SpecAcquire *)

Last(es) == es[Len(es)]

Failed(e) == e.outcome # "ok"

\* C6: download creates an absent destination as a directory before any
\* tool or transfer starts; a destination that exists and is not a directory
\* makes it fail with the filesystem error, with no tool run, no transfer
\* made and the entry left as it was.  For every kind of resource.
C6_Destination ==
    op = "download" =>
        /\ (dest0.kind = "file" /\ pc # "dl_dest") =>
              /\ pc = "returned"
              /\ ret = Err("Download destination must be a directory")
              /\ effects = <<>>
              /\ dest = dest0
        /\ (dest0.kind = "absent" /\ pc # "dl_dest") =>
              /\ effects # <<>>
              /\ effects[1].tool = "fs::create_dir_all"
              /\ IF Failed(effects[1])
                 THEN pc = "returned" /\ ret.tag = "Err" /\ Len(effects) = 1 /\ dest = dest0
                 ELSE dest.kind = "dir"
        /\ (Processes(effects) \cup Transfers(effects)) # {} => dest.kind = "dir"

\* C6, witness: git clone into a path that is a regular file was refused
C6_Witness ==
    /\ op = "download"
    /\ pc = "returned"
    /\ res.kind = "Git"
    /\ dest0.kind = "file"
    /\ ret.tag = "Err"

\* C7: a failed step of download (creating the destination, the transfer, a
\* tool) ends the call at once with that error: no step follows a failed
\* one, no step runs twice, tar runs only after the archive file was
\* fetched, created, completely written and synced, and nothing the call or
\* an earlier one placed in the destination is removed.
C7_FailFastNoCleanup ==
    op = "download" =>
        /\ \A i \in 1..Len(effects) : i < Len(effects) => ~Failed(effects[i])
        /\ (effects # <<>> /\ Failed(Last(effects))) =>
              /\ pc = "returned"
              /\ ret.tag = "Err"
              /\ Last(effects).kind = "process" => ret = Err("ToolInvocationError")
        /\ \A i, j \in 1..Len(effects) :
              (effects[i].tool = effects[j].tool /\ effects[i].args = effects[j].args)
                  => i = j
        /\ \A i \in 1..Len(effects) :
              effects[i].tool = "tar" =>
                  /\ i > 4
                  /\ <<effects[i - 4].tool, effects[i - 3].tool,
                       effects[i - 2].tool, effects[i - 1].tool>>
                     = <<"reqwest::get", "fs::File::create", "Response::copy_to",
                         "File::sync_all">>
                  /\ dest.archive = "synced"
        /\ dest0.entries \subseteq dest.entries
        /\ \A i \in 1..Len(effects) : effects[i].placed \subseteq dest.entries
        /\ (effects # <<>> /\ effects[1].tool = "fs::create_dir_all"
               /\ ~Failed(effects[1])) => dest.kind = "dir"
        /\ (pc = "returned" /\ ret.tag = "Ok") =>
              /\ effects # <<>>
              /\ ~Failed(Last(effects))
              /\ Last(effects).kind = "process"

\* C7, witness: the destination was created, the transfer broke off while
\* the body was copied; the call returned the error, tar never ran, the
\* directory and the partial archive file are still there
C7_Witness ==
    /\ op = "download"
    /\ pc = "returned"
    /\ res.kind = "Tar"
    /\ dest0.kind = "absent"
    /\ Last(effects).tool = "Response::copy_to"
    /\ Failed(Last(effects))
    /\ ret.tag = "Err"
    /\ dest.kind = "dir"
    /\ "archive_file" \in dest.entries
    /\ dest.archive = "partial"

\* C8: update of an archive returns Ok whatever the destination is, runs no
\* tool, makes no transfer and leaves the filesystem as it was.
C8_ArchiveUpdateIsNoOp ==
    (op = "update" /\ res.kind = "Tar") =>
        /\ effects = <<>>
        /\ dest = dest0
        /\ pc = "returned" => ret = OkUnit

\* C8, witness: update of an archive returned with an absent destination
C8_Witness ==
    /\ op = "update"
    /\ pc = "returned"
    /\ res.kind = "Tar"
    /\ dest0.kind = "absent"
    /\ ret = OkUnit

\* C9: update of a Subversion or Git resource runs exactly one tool, svn
\* update for Subversion and git pull for Git, in the destination; the call
\* returns Ok only if it exited zero, and its failure is returned as it is,
\* with no second invocation.
C9_UpdateRunsOneTool ==
    (op = "update" /\ res.kind \in {"Svn", "Git"} /\ pc = "returned") =>
        /\ Len(effects) = 1
        /\ effects[1].kind = "process"
        /\ effects[1].cwd = "dest"
        /\ res.kind = "Svn" => effects[1].tool = "svn" /\ effects[1].args = <<"update">>
        /\ res.kind = "Git" => effects[1].tool = "git" /\ effects[1].args = <<"pull">>
        /\ ret = OkUnit <=> effects[1].outcome = "ok"
        /\ Failed(effects[1]) => ret = Err("ToolInvocationError")

\* C9, witness: svn update exited non-zero and the call returned the error
C9_Witness ==
    /\ op = "update"
    /\ pc = "returned"
    /\ res.kind = "Svn"
    /\ effects[1].outcome = "nonzero"
    /\ ret.tag = "Err"

---------------------------------------------------------------------------
(* Properties of init_config, checked under SpecConfig *)

===========================================================================
